---- MODULE Spec2Model ----
(***************************************************************************)
(* Date estimation service of the Prox mobile app                          *)
(* (src/src/pages/DealSearch.tsx, lines 193-387): the heuristic rule       *)
(* table, getHeuristicEstimate, getLLMEstimate and estimateDates.          *)
(*                                                                         *)
(* JavaScript values are modelled as tagged records.  Strings that the     *)
(* code searches (item names, keywords) are sequences of one-character     *)
(* strings; category names are plain strings, since the code only uses     *)
(* them as property keys.  Time values are whole hours since               *)
(* 1970-01-01T00:00Z: every instant the code can produce from a date-only  *)
(* purchase date and whole-hour zone offsets is a whole hour.              *)
(***************************************************************************)
EXTENDS Integers, Sequences, FiniteSets, TLC

VARIABLES tz, pc, input, purchaseDate, response, estimate, source,
          expirationDate, restockDate, maxExpirationDate, result,
          requests, lookups,
          hName, hCategory, hResult, hDone,
          rules, extractedItems, batchPc, confirmedItems, today, calls,
          onSuccessArg,
          searchTerm, zipcode, radius, results, loading, error, searchPc,
          submitted, radiusNum, rpcLog, exact, data,
          image, isProcessing, isConfirming, readers, scans, selections

vars == <<tz, pc, input, purchaseDate, response, estimate, source,
          expirationDate, restockDate, maxExpirationDate, result,
          requests, lookups,
          hName, hCategory, hResult, hDone,
          rules, extractedItems, batchPc, confirmedItems, today, calls,
          onSuccessArg,
          searchTerm, zipcode, radius, results, loading, error, searchPc,
          submitted, radiusNum, rpcLog, exact, data,
          image, isProcessing, isConfirming, readers, scans, selections>>

callVars == <<tz, pc, input, purchaseDate, response, estimate, source,
              expirationDate, restockDate, maxExpirationDate, result,
              requests, lookups>>

\* the number of fetches issued and of getHeuristicEstimate calls made
counterVars == <<requests, lookups>>


dateVars == <<expirationDate, restockDate, maxExpirationDate>>

resolverVars == <<hName, hCategory, hResult, hDone>>

\* the receipt batch: the shared rule table, the items on the review screen,
\* and the estimateDates calls handleConfirmItems has fanned out
batchVars ==
  <<rules, extractedItems, batchPc, confirmedItems, today, calls, onSuccessArg>>

\* everything a single call of estimateDates leaves alone
batchRunVars == <<rules, batchPc, confirmedItems, today, calls, onSuccessArg>>

searchVars ==
  <<searchTerm, zipcode, radius, results, loading, error, searchPc,
    submitted, radiusNum, rpcLog, exact, data>>

scanVars == <<image, isProcessing, isConfirming, readers, scans, selections>>

uiVars == <<searchVars, scanVars>>

otherVars == <<resolverVars, batchVars, uiVars>>

(***************************************************************************)
(* JavaScript values                                                       *)
(***************************************************************************)
\* a number
Num(n) == [kind |-> "num", v |-> n]

\* the value undefined (a property that is absent from the payload)
Undef == [kind |-> "undef", v |-> 0]

\* a string holding the decimal digits of n (0 <= n <= 99)
Str(n) == [kind |-> "str", v |-> n]

\* { shelf_life, restock }
Pair(s, r) == [kind |-> "pair", shelf_life |-> s, restock |-> r]

Rule(s, r) == Pair(Num(s), Num(r))

Null == [kind |-> "null", shelf_life |-> Undef, restock |-> Undef]

Undefined == [kind |-> "undefined", shelf_life |-> Undef, restock |-> Undef]

(***************************************************************************)
(* The rule table, in the authored order of the object literal             *)
(***************************************************************************)
HEURISTIC_RULES ==
  << [category |-> "Produce", default |-> Rule(5, 7), keywords |-> <<
       [keyword |-> <<"a", "p", "p", "l", "e">>, rule |-> Rule(14, 14)],
       [keyword |-> <<"b", "a", "n", "a", "n", "a">>, rule |-> Rule(7, 7)],
       [keyword |-> <<"l", "e", "t", "t", "u", "c", "e">>, rule |-> Rule(5, 7)],
       [keyword |-> <<"s", "p", "i", "n", "a", "c", "h">>, rule |-> Rule(3, 7)],
       [keyword |-> <<"t", "o", "m", "a", "t", "o">>, rule |-> Rule(7, 10)],
       [keyword |-> <<"a", "v", "o", "c", "a", "d", "o">>, rule |-> Rule(5, 7)],
       [keyword |-> <<"c", "a", "r", "r", "o", "t">>, rule |-> Rule(21, 14)],
       [keyword |-> <<"o", "n", "i", "o", "n">>, rule |-> Rule(30, 21)],
       [keyword |-> <<"p", "o", "t", "a", "t", "o">>, rule |-> Rule(30, 21)]
     >>],
     [category |-> "Dairy", default |-> Rule(7, 10), keywords |-> <<
       [keyword |-> <<"m", "i", "l", "k">>, rule |-> Rule(7, 7)],
       [keyword |-> <<"c", "h", "e", "e", "s", "e">>, rule |-> Rule(14, 14)],
       [keyword |-> <<"y", "o", "g", "u", "r", "t">>, rule |-> Rule(14, 10)],
       [keyword |-> <<"b", "u", "t", "t", "e", "r">>, rule |-> Rule(30, 30)],
       [keyword |-> <<"e", "g", "g", "s">>, rule |-> Rule(25, 14)],
       [keyword |-> <<"c", "r", "e", "a", "m">>, rule |-> Rule(5, 10)]
     >>],
     [category |-> "Meat", default |-> Rule(2, 7), keywords |-> <<
       [keyword |-> <<"c", "h", "i", "c", "k", "e", "n">>, rule |-> Rule(2, 7)],
       [keyword |-> <<"b", "e", "e", "f">>, rule |-> Rule(3, 10)],
       [keyword |-> <<"p", "o", "r", "k">>, rule |-> Rule(3, 10)],
       [keyword |-> <<"f", "i", "s", "h">>, rule |-> Rule(1, 7)],
       [keyword |-> <<"g", "r", "o", "u", "n", "d">>, rule |-> Rule(1, 7)],
       [keyword |-> <<"f", "r", "o", "z", "e", "n">>, rule |-> Rule(90, 30)]
     >>],
     [category |-> "Pantry", default |-> Rule(180, 60), keywords |-> <<
       [keyword |-> <<"b", "r", "e", "a", "d">>, rule |-> Rule(7, 7)],
       [keyword |-> <<"p", "a", "s", "t", "a">>, rule |-> Rule(365, 90)],
       [keyword |-> <<"r", "i", "c", "e">>, rule |-> Rule(365, 90)],
       [keyword |-> <<"c", "e", "r", "e", "a", "l">>, rule |-> Rule(60, 30)],
       [keyword |-> <<"f", "l", "o", "u", "r">>, rule |-> Rule(180, 90)],
       [keyword |-> <<"o", "i", "l">>, rule |-> Rule(365, 180)],
       [keyword |-> <<"c", "a", "n", "n", "e", "d">>, rule |-> Rule(730, 90)]
     >>],
     [category |-> "Frozen", default |-> Rule(90, 30), keywords |-> <<
       [keyword |-> <<"i", "c", "e", " ", "c", "r", "e", "a", "m">>, rule |-> Rule(60, 30)],
       [keyword |-> <<"v", "e", "g", "e", "t", "a", "b", "l", "e", "s">>, rule |-> Rule(180, 60)],
       [keyword |-> <<"f", "r", "u", "i", "t">>, rule |-> Rule(180, 60)],
       [keyword |-> <<"p", "i", "z", "z", "a">>, rule |-> Rule(90, 30)]
     >>],
     [category |-> "Beverages", default |-> Rule(90, 30), keywords |-> <<
       [keyword |-> <<"j", "u", "i", "c", "e">>, rule |-> Rule(7, 14)],
       [keyword |-> <<"s", "o", "d", "a">>, rule |-> Rule(90, 30)],
       [keyword |-> <<"w", "a", "t", "e", "r">>, rule |-> Rule(365, 30)],
       [keyword |-> <<"c", "o", "f", "f", "e", "e">>, rule |-> Rule(180, 60)],
       [keyword |-> <<"t", "e", "a">>, rule |-> Rule(365, 90)]
     >>],
     [category |-> "Household", default |-> Rule(365, 90), keywords |-> <<
       [keyword |-> <<"p", "a", "p", "e", "r">>, rule |-> Rule(365, 60)],
       [keyword |-> <<"d", "e", "t", "e", "r", "g", "e", "n", "t">>, rule |-> Rule(365, 90)],
       [keyword |-> <<"s", "o", "a", "p">>, rule |-> Rule(365, 60)]
     >>],
     [category |-> "Personal Care", default |-> Rule(365, 90), keywords |-> <<
       [keyword |-> <<"t", "o", "o", "t", "h", "p", "a", "s", "t", "e">>, rule |-> Rule(730, 90)],
       [keyword |-> <<"s", "h", "a", "m", "p", "o", "o">>, rule |-> Rule(365, 90)],
       [keyword |-> <<"d", "e", "o", "d", "o", "r", "a", "n", "t">>, rule |-> Rule(365, 90)]
     >>],
     [category |-> "Baby", default |-> Rule(30, 14), keywords |-> <<
       [keyword |-> <<"f", "o", "r", "m", "u", "l", "a">>, rule |-> Rule(30, 14)],
       [keyword |-> <<"d", "i", "a", "p", "e", "r", "s">>, rule |-> Rule(365, 30)],
       [keyword |-> <<"f", "o", "o", "d">>, rule |-> Rule(14, 14)]
     >>],
     [category |-> "Pet", default |-> Rule(90, 30), keywords |-> <<
       [keyword |-> <<"f", "o", "o", "d">>, rule |-> Rule(90, 30)],
       [keyword |-> <<"t", "r", "e", "a", "t", "s">>, rule |-> Rule(180, 60)],
       [keyword |-> <<"l", "i", "t", "t", "e", "r">>, rule |-> Rule(365, 30)]
     >>] >>

NumCategories == Len(HEURISTIC_RULES)

OwnCategories == {HEURISTIC_RULES[i].category : i \in 1..NumCategories}

\* property names every object literal inherits from Object.prototype
ObjectPrototypeKeys ==
  {"constructor", "toString", "toLocaleString", "valueOf", "hasOwnProperty",
   "isPrototypeOf", "propertyIsEnumerable", "__proto__"}

(***************************************************************************)
(* getHeuristicEstimate                                                    *)
(***************************************************************************)
UpperToLower ==
  ("A" :> "a") @@ ("B" :> "b") @@ ("C" :> "c") @@ ("D" :> "d")
    @@ ("E" :> "e") @@ ("F" :> "f") @@ ("G" :> "g") @@ ("H" :> "h")
    @@ ("I" :> "i") @@ ("J" :> "j") @@ ("K" :> "k") @@ ("L" :> "l")
    @@ ("M" :> "m") @@ ("N" :> "n") @@ ("O" :> "o") @@ ("P" :> "p")
    @@ ("Q" :> "q") @@ ("R" :> "r") @@ ("S" :> "s") @@ ("T" :> "t")
    @@ ("U" :> "u") @@ ("V" :> "v") @@ ("W" :> "w") @@ ("X" :> "x")
    @@ ("Y" :> "y") @@ ("Z" :> "z")

LowerChar(c) == IF c \in DOMAIN UpperToLower THEN UpperToLower[c] ELSE c

\* String.prototype.toLowerCase
ToLowerCase(s) == [i \in 1..Len(s) |-> LowerChar(s[i])]

\* String.prototype.includes
Includes(s, keyword) ==
  \E i \in 0..(Len(s) - Len(keyword)) : SubSeq(s, i + 1, i + Len(keyword)) = keyword

\* HEURISTIC_RULES[category]: an own property, a property inherited from
\* Object.prototype (a truthy value without keywords and default), or undefined
CategoryRules(category) ==
  IF category \in OwnCategories
    THEN [kind |-> "rule",
          idx |-> CHOOSE i \in 1..NumCategories : HEURISTIC_RULES[i].category = category]
    ELSE IF category \in ObjectPrototypeKeys
      THEN [kind |-> "inherited", idx |-> 0]
      ELSE [kind |-> "undefined", idx |-> 0]

\* faulty variant of the scan: the last matching keyword wins
RECURSIVE ScanKeywordsLast(_, _, _, _)
ScanKeywordsLast(keywords, i, nameLower, default) ==
  IF i > Len(keywords) THEN default
  ELSE LET later == ScanKeywordsLast(keywords, i + 1, nameLower, Undefined)
       IN IF later # Undefined THEN later
          ELSE IF Includes(nameLower, keywords[i].keyword) THEN keywords[i].rule
          ELSE default

\* the for loop over Object.entries(categoryRules.keywords), then the default
RECURSIVE ScanKeywords(_, _, _, _)
ScanKeywords(keywords, i, nameLower, default) ==
  IF i > Len(keywords) THEN default
  ELSE IF Includes(nameLower, keywords[i].keyword) THEN keywords[i].rule
  ELSE ScanKeywords(keywords, i + 1, nameLower, default)

\* the function body, reading the rule objects of the table as it is now
getHeuristicEstimateFrom(table, name, category) ==
  LET categoryRules == CategoryRules(category)
  IN CASE categoryRules.kind = "undefined" -> Rule(30, 30)
       [] categoryRules.kind = "inherited" -> ScanKeywords(<<>>, 1, ToLowerCase(name), Undefined)
       [] OTHER ->
            ScanKeywords(table[categoryRules.idx].keywords, 1,
                         ToLowerCase(name), table[categoryRules.idx].default)

getHeuristicEstimate(name, category) ==
  getHeuristicEstimateFrom(HEURISTIC_RULES, name, category)

(***************************************************************************)
(* Date: calendar and time zone arithmetic of the JavaScript Date object   *)
(***************************************************************************)
HoursPerDay == 24

\* an Invalid Date (time value NaN)
InvalidDate == [nan |-> TRUE, t |-> 0]

ValidDate(t) == [nan |-> FALSE, t |-> t]

\* number of days from 1970-01-01 to the civil date y-m-d (proleptic Gregorian)
DaysFromCivil(y, m, d) ==
  LET yy  == IF m <= 2 THEN y - 1 ELSE y
      era == yy \div 400
      yoe == yy - era * 400
      mp  == (m + 9) % 12
      doy == (153 * mp + 2) \div 5 + d - 1
      doe == yoe * 365 + yoe \div 4 - yoe \div 100 + doy
  IN era * 146097 + doe - 719468

\* the civil date <<y, m, d>> of day number z
CivilFromDays(z) ==
  LET zz  == z + 719468
      era == zz \div 146097
      doe == zz - era * 146097
      yoe == (doe - doe \div 1460 + doe \div 36524 - doe \div 146096) \div 365
      doy == doe - (365 * yoe + yoe \div 4 - yoe \div 100)
      mp  == (5 * doy + 2) \div 153
      d   == doy - (153 * mp + 2) \div 5 + 1
      m   == IF mp < 10 THEN mp + 3 ELSE mp - 9
      y   == yoe + era * 400 + (IF m <= 2 THEN 1 ELSE 0)
  IN <<y, m, d>>

\* Day(t) and TimeWithinDay(t) of a time value
Day(t) == t \div HoursPerDay

TimeWithinDay(t) == t % HoursPerDay

\* 0 = Sunday; 1970-01-01 was a Thursday
WeekDay(day) == (day + 4) % 7

\* day number of the n-th Sunday of month m of year y
NthSunday(y, m, n) ==
  LET first == DaysFromCivil(y, m, 1)
  IN first + ((7 - WeekDay(first)) % 7) + 7 * (n - 1)

\* The time zones of the runtime.  std and dst are the offsets from UTC in
\* hours; a zone with rule "us" observes daylight saving time from the second
\* Sunday of March, 02:00, to the first Sunday of November, 02:00.
Zones ==
  { [name |-> "UTC", std |-> 0, dst |-> 0, rule |-> "none"],
    [name |-> "Asia/Tokyo", std |-> 9, dst |-> 9, rule |-> "none"],
    [name |-> "America/New_York", std |-> 0 - 5, dst |-> 0 - 4, rule |-> "us"] }

\* local wall-clock hours at which daylight saving time starts and ends
DstStartLocal(y) == NthSunday(y, 3, 2) * HoursPerDay + 2

DstEndLocal(y) == NthSunday(y, 11, 1) * HoursPerDay + 2

\* LocalTZA(t, isUTC): the offset of the zone at the UTC time t (isUTC), or at
\* the local time t (a skipped local hour takes the offset before the
\* transition, a repeated one the earlier of its two instants)
LocalTZA(zone, t, isUTC) ==
  IF zone.rule = "none" THEN zone.std
  ELSE LET y == CivilFromDays(Day(t))[1]
           start == IF isUTC THEN DstStartLocal(y) - zone.std ELSE DstStartLocal(y) + 1
           end   == IF isUTC THEN DstEndLocal(y) - zone.dst ELSE DstEndLocal(y)
       IN IF start <= t /\ t < end THEN zone.dst ELSE zone.std

LocalTime(zone, t) == t + LocalTZA(zone, t, TRUE)

UTC(zone, t) == t - LocalTZA(zone, t, FALSE)

\* MakeDay(year, month, date): the date may lie outside the month
MakeDay(y, m, dt) == DaysFromCivil(y, m, 1) + dt - 1

\* new Date(s) for an ISO date-only string (UTC midnight) or an unparseable one
NewDate(s) ==
  IF s.kind = "iso" THEN ValidDate(DaysFromCivil(s.y, s.m, s.d) * HoursPerDay)
  ELSE InvalidDate

\* date.getDate(): the day of the month in local time
GetDate(zone, date) == CivilFromDays(Day(LocalTime(zone, date.t)))[3]

\* date.getDate() + x: a number, NaN (x undefined), or, for a string x, the
\* concatenation of the two decimal numerals, which setDate converts back
DatePlus(dom, x) ==
  CASE x.kind = "num" -> Num(dom + x.v)
    [] x.kind = "str" -> Num(dom * (IF x.v < 10 THEN 10 ELSE 100) + x.v)
    [] OTHER -> Undef

\* date.setDate(dt): the day of the month is replaced in local time, the local
\* time of day is kept
SetDate(zone, date, dt) ==
  LET tl    == LocalTime(zone, date.t)
      civil == CivilFromDays(Day(tl))
      newTl == MakeDay(civil[1], civil[2], dt) * HoursPerDay + TimeWithinDay(tl)
  IN ValidDate(UTC(zone, newTl))

\* d = new Date(date); d.setDate(d.getDate() + x)
AddDays(zone, date, x) ==
  IF date.nan THEN InvalidDate
  ELSE LET dt == DatePlus(GetDate(zone, date), x)
       IN IF dt.kind = "num" THEN SetDate(zone, date, dt.v) ELSE InvalidDate

\* date.toISOString().split('T')[0]: the UTC calendar date
ISODate(date) == CivilFromDays(Day(date.t))

(***************************************************************************)
(* getLLMEstimate                                                          *)
(***************************************************************************)
\* What the fetch of the estimation endpoint can come back with: a rejected
\* fetch, or a response with a status (ok or not) and a body that is not
\* JSON, is the JSON value null, or is a JSON object with the two fields.
NetworkError ==
  [kind |-> "networkError", ok |-> FALSE, body |-> "none",
   shelfLifeDays |-> Undef, restockDays |-> Undef]

Response(ok, body, s, r) ==
  [kind |-> "response", ok |-> ok, body |-> body,
   shelfLifeDays |-> s, restockDays |-> r]

NoResponse ==
  [kind |-> "pending", ok |-> FALSE, body |-> "none",
   shelfLifeDays |-> Undef, restockDays |-> Undef]

\* try { fetch; if (!response.ok) throw; data = await response.json();
\*       return { shelf_life: data.shelfLifeDays, restock: data.restockDays } }
\* catch { return null }
getLLMEstimate(outcome) ==
  CASE outcome.kind # "response" -> Null
    [] ~outcome.ok -> Null
    [] outcome.body = "notJson" -> Null
    [] outcome.body = "null" -> Null
    [] OTHER -> Pair(outcome.shelfLifeDays, outcome.restockDays)

(***************************************************************************)
(* estimateDates                                                           *)
(***************************************************************************)
NoDate == <<0, 0, 0>>

NoResult ==
  [status |-> "none", estimatedExpirationAt |-> NoDate,
   estimatedRestockAt |-> NoDate, source |-> "", error |-> ""]

Rejected(thrown) ==
  [status |-> "rejected", estimatedExpirationAt |-> NoDate,
   estimatedRestockAt |-> NoDate, source |-> "", error |-> thrown]

Resolved(expiration, restock, src) ==
  [status |-> "resolved", estimatedExpirationAt |-> expiration,
   estimatedRestockAt |-> restock, source |-> src, error |-> ""]

\* if (!estimate) { estimate = getHeuristicEstimate(...); source = 'heuristic' }
FallbackEstimate(est, name, category) ==
  IF est.kind = "null" THEN getHeuristicEstimate(name, category) ELSE est

\* faulty variant: the two provenance tags exchanged
FallbackSourceSwapped(est) == IF est.kind = "null" THEN "llm" ELSE "heuristic"

FallbackSource(est) == IF est.kind = "null" THEN "heuristic" ELSE "llm"

\* faulty variant: the heuristic is looked up whether or not the oracle answered
HeuristicLookupsAlways(est, n) == n + 1

\* getHeuristicEstimate is called inside the if (!estimate) branch only
HeuristicLookups(est, n) == IF est.kind = "null" THEN n + 1 ELSE n

\* if (expirationDate > maxExpirationDate) expirationDate.setTime(max.getTime())
CapExpiration(expiration, maxExpiration) ==
  IF ~expiration.nan /\ ~maxExpiration.nan /\ expiration.t > maxExpiration.t
    THEN maxExpiration
    ELSE expiration

\* faulty variant: the restock date is returned without the comparison
RestockChoiceRaw(expiration, restock) == restock

\* Math.min(expiration.getTime(), restock.getTime()) === restock.getTime()
\*   ? restockDate : expirationDate        (Math.min of a NaN is NaN)
RestockChoice(expiration, restock) ==
  IF ~expiration.nan /\ ~restock.nan /\ restock.t <= expiration.t
    THEN restock
    ELSE expiration

\* the return statement: toISOString throws a RangeError on an Invalid Date
ReturnValue(expiration, restock, src) ==
  IF expiration.nan THEN Rejected("RangeError")
  ELSE Resolved(ISODate(expiration), ISODate(RestockChoice(expiration, restock)), src)

(***************************************************************************)
(* Inputs                                                                  *)
(***************************************************************************)
\* "Frozen Ground Beef"
FrozenGroundBeef == <<"F", "r", "o", "z", "e", "n", " ", "G", "r", "o", "u", "n", "d", " ", "B", "e", "e", "f">>

\* "milk"
Milk == <<"m", "i", "l", "k">>

\* "canned beans"
CannedBeans == <<"c", "a", "n", "n", "e", "d", " ", "b", "e", "a", "n", "s">>

\* ""
EmptyName == <<>>

\* "ground frozen"
GroundFrozen == <<"g", "r", "o", "u", "n", "d", " ", "f", "r", "o", "z", "e", "n">>

\* "ICE CREAM sandwich"
IceCreamSandwich == <<"I", "C", "E", " ", "C", "R", "E", "A", "M", " ", "s", "a", "n", "d", "w", "i", "c", "h">>

\* "Toothpaste"
Toothpaste == <<"T", "o", "o", "t", "h", "p", "a", "s", "t", "e">>

\* "baby food"
BabyFood == <<"b", "a", "b", "y", " ", "f", "o", "o", "d">>

\* "steak"
Steak == <<"s", "t", "e", "a", "k">>

\* "pork and chicken"
PorkAndChicken == <<"p", "o", "r", "k", " ", "a", "n", "d", " ", "c", "h", "i", "c", "k", "e", "n">>

\* "Oatmeal"
Oatmeal == <<"O", "a", "t", "m", "e", "a", "l">>

\* "tea and coffee"
TeaAndCoffee == <<"t", "e", "a", " ", "a", "n", "d", " ", "c", "o", "f", "f", "e", "e">>

\* "frozen"
FrozenOnly == <<"f", "r", "o", "z", "e", "n">>

ResolverNameList ==
  <<FrozenGroundBeef, Milk, CannedBeans, EmptyName, GroundFrozen, IceCreamSandwich, Toothpaste,
    BabyFood, Steak, PorkAndChicken, Oatmeal, TeaAndCoffee, FrozenOnly>>

Min(a, b) == IF a <= b THEN a ELSE b

\* number of names and of purchase dates the inputs are drawn from
NumNames == 10

NumPurchaseDates == 7

ResolverNames ==
  {ResolverNameList[i] : i \in 1..Min(NumNames, Len(ResolverNameList))}

\* the ten table categories, and unknown, differently cased and inherited ones
ResolverCategories ==
  OwnCategories \cup {"Exotic", "meat", "", "constructor", "toString", "__proto__"}

CallNames == {EmptyName, Milk, FrozenGroundBeef, CannedBeans}

CallCategories == {"Meat", "Dairy", "Pantry", "Exotic", "constructor"}

IsoDate(y, m, d) == [kind |-> "iso", y |-> y, m |-> m, d |-> d]

Unparseable == [kind |-> "unparseable", y |-> 0, m |-> 0, d |-> 0]

PurchaseDateList ==
  << IsoDate(2024, 1, 1), IsoDate(2024, 3, 5), IsoDate(2023, 3, 1),
     IsoDate(2024, 2, 28), IsoDate(2024, 7, 1), IsoDate(2024, 10, 30),
     IsoDate(2024, 12, 31), IsoDate(2025, 3, 8), IsoDate(2023, 11, 4) >>

PurchaseDates ==
  {PurchaseDateList[i] : i \in 1..Min(NumPurchaseDates, Len(PurchaseDateList))}
    \cup {Unparseable}

\* values of a day-count field of the payload
DayCountFields ==
  {Undef, Str(10), Num(0 - 3), Num(0), Num(10), Num(400), Num(1000)}

OracleOutcomes ==
  {NetworkError, Response(FALSE, "none", Undef, Undef),
   Response(TRUE, "notJson", Undef, Undef), Response(TRUE, "null", Undef, Undef)}
    \cup {Response(TRUE, "object", s, r) : s \in DayCountFields, r \in DayCountFields}

UTCZone == CHOOSE z \in Zones : z.name = "UTC"

NoInput == [name |-> <<>>, category |-> "", purchasedAt |-> Unparseable]

(***************************************************************************)
(* One call of estimateDates                                               *)
(***************************************************************************)
CallIdle ==
  /\ pc = "idle"
  /\ input = NoInput
  /\ purchaseDate = InvalidDate
  /\ response = NoResponse
  /\ estimate = Null
  /\ source = ""
  /\ expirationDate = InvalidDate
  /\ restockDate = InvalidDate
  /\ maxExpirationDate = InvalidDate
  /\ result = NoResult
  /\ requests = 0
  /\ lookups = 0

ResolverIdle ==
  /\ hName = <<>>
  /\ hCategory = ""
  /\ hResult = Null
  /\ hDone = FALSE

\* useState<string | null>(null) for the error message
NoError == [isNull |-> TRUE, message |-> ""]

ErrorMessage(message) == [isNull |-> FALSE, message |-> message]

\* a result of parseInt
NaN == [nan |-> TRUE, value |-> 0]

Number(n) == [nan |-> FALSE, value |-> n]

\* the { data, error } an RPC resolves with
RpcError(message) == [kind |-> "error", message |-> message, isNull |-> TRUE, data |-> <<>>]

RpcNull == [kind |-> "data", message |-> "", isNull |-> TRUE, data |-> <<>>]

RpcData(rows) == [kind |-> "data", message |-> "", isNull |-> FALSE, data |-> rows]

\* the exact-zip RPC has not resolved
NoReply == [kind |-> "pending", message |-> "", isNull |-> TRUE, data |-> <<>>]

\* the field values a handleSearch invocation closes over
Submission(term, zip, rad) == [searchTerm |-> term, zipcode |-> zip, radius |-> rad]

\* the search form as mounted: useState(''), useState(''), useState('10')
SearchIdle ==
  /\ searchTerm = <<>>
  /\ zipcode = <<>>
  /\ radius = <<"1", "0">>
  /\ results = <<>>
  /\ loading = FALSE
  /\ error = NoError
  /\ searchPc = "idle"
  /\ submitted = Submission(<<>>, <<>>, <<>>)
  /\ radiusNum = NaN
  /\ rpcLog = <<>>
  /\ exact = NoReply
  /\ data = <<>>

\* useState<string | null>(null) for the image
NoImage == "null"

\* the receipt screen as mounted
ScanIdle ==
  /\ image = NoImage
  /\ isProcessing = FALSE
  /\ isConfirming = FALSE
  /\ readers = {}
  /\ scans = {}
  /\ selections = 0

\* the receipt screen after a scan has delivered its items
ScanReviewing ==
  /\ image = "receipt1"
  /\ isProcessing = FALSE
  /\ isConfirming = TRUE
  /\ readers = {}
  /\ scans = {}
  /\ selections = 1

\* no receipt is under review
BatchIdle ==
  /\ rules = HEURISTIC_RULES
  /\ extractedItems = <<>>
  /\ batchPc = "none"
  /\ confirmedItems = <<>>
  /\ today = Unparseable
  /\ calls = <<>>
  /\ onSuccessArg = <<>>

Init ==
  /\ tz \in Zones
  /\ CallIdle
  /\ ResolverIdle
  /\ BatchIdle
  /\ SearchIdle
  /\ ScanIdle

\* estimateDates(input) is entered: purchaseDate = new Date(input.purchasedAt),
\* then getLLMEstimate issues the fetch and the call is suspended on it
Invoke(name, category, purchasedAt) ==
  /\ pc = "idle"
  /\ input' = [name |-> name, category |-> category, purchasedAt |-> purchasedAt]
  /\ purchaseDate' = NewDate(purchasedAt)
  /\ pc' = "fetch"
  /\ requests' = requests + 1
  /\ UNCHANGED <<tz, response, estimate, source, dateVars, result, lookups, otherVars>>

\* the fetch settles and getLLMEstimate returns: estimate = await ...,
\* source = 'llm'
OracleReply(outcome) ==
  /\ pc = "fetch"
  /\ response' = outcome
  /\ estimate' = getLLMEstimate(outcome)
  /\ source' = "llm"
  /\ pc' = "fallback"
  /\ UNCHANGED <<tz, input, purchaseDate, dateVars, result, counterVars, otherVars>>

\* if (!estimate) { estimate = getHeuristicEstimate(...); source = 'heuristic' }
Fallback ==
  /\ pc = "fallback"
  /\ estimate' = FallbackEstimate(estimate, input.name, input.category)
  /\ source' = FallbackSource(estimate)
  /\ pc' = "compute"
  /\ lookups' = HeuristicLookups(estimate, lookups)
  /\ UNCHANGED <<tz, input, purchaseDate, response, dateVars, result, requests, otherVars>>

\* reading estimate.shelf_life of undefined throws a TypeError: the call rejects
ThrowTypeError ==
  /\ pc = "compute"
  /\ estimate.kind # "pair"
  /\ result' = Rejected("TypeError")
  /\ pc' = "done"
  /\ UNCHANGED <<tz, input, purchaseDate, response, estimate, source, dateVars,
                 counterVars, otherVars>>

\* the three dates: purchase date plus shelf life, plus restock, plus 365
ComputeDates ==
  /\ pc = "compute"
  /\ estimate.kind = "pair"
  /\ expirationDate' = AddDays(tz, purchaseDate, estimate.shelf_life)
  /\ restockDate' = AddDays(tz, purchaseDate, estimate.restock)
  /\ maxExpirationDate' = AddDays(tz, purchaseDate, Num(365))
  /\ pc' = "cap"
  /\ UNCHANGED <<tz, input, purchaseDate, response, estimate, source, result,
                 counterVars, otherVars>>

\* cap expiration within 365 days
Cap ==
  /\ pc = "cap"
  /\ expirationDate' = CapExpiration(expirationDate, maxExpirationDate)
  /\ pc' = "return"
  /\ UNCHANGED <<tz, input, purchaseDate, response, estimate, source, restockDate,
                 maxExpirationDate, result, counterVars, otherVars>>

\* the return statement (or the exception that rejects the call)
Return ==
  /\ pc = "return"
  /\ result' = ReturnValue(expirationDate, restockDate, source)
  /\ pc' = "done"
  /\ UNCHANGED <<tz, input, purchaseDate, response, estimate, source, dateVars,
                 counterVars, otherVars>>

Next ==
  \/ \E name \in CallNames, category \in CallCategories, purchasedAt \in PurchaseDates :
       Invoke(name, category, purchasedAt)
  \/ \E outcome \in OracleOutcomes : OracleReply(outcome)
  \/ Fallback
  \/ ThrowTypeError
  \/ ComputeDates
  \/ Cap
  \/ Return

Spec == Init /\ [][Next]_vars

(***************************************************************************)
(* getHeuristicEstimate on its own                                         *)
(***************************************************************************)
ResolverInit ==
  /\ tz = UTCZone
  /\ CallIdle
  /\ BatchIdle
  /\ SearchIdle
  /\ ScanIdle
  /\ hName \in ResolverNames
  /\ hCategory \in ResolverCategories
  /\ hResult = Null
  /\ hDone = FALSE

Resolve ==
  /\ ~hDone
  /\ hResult' = getHeuristicEstimate(hName, hCategory)
  /\ hDone' = TRUE
  /\ UNCHANGED <<hName, hCategory, callVars, batchVars, uiVars>>

ResolverNext == Resolve

SpecResolver == ResolverInit /\ [][ResolverNext]_vars
(***************************************************************************)
(* The receipt batch: handleConfirmItems of ScanReceipt                    *)
(***************************************************************************)
\* the largest number of items a scanned receipt holds
MaxItems == 3

ItemKinds ==
  { [name |-> Milk, category |-> "Dairy"],
    [name |-> FrozenGroundBeef, category |-> "Meat"],
    [name |-> Milk, category |-> "constructor"] }

\* processReceiptImage marks every extracted item confirmed
ScannedItems ==
  {[name |-> k.name, category |-> k.category, confirmed |-> TRUE] : k \in ItemKinds}

ScannedLists == UNION {[1..n -> ScannedItems] : n \in 1..MaxItems}

BatchDays == {IsoDate(2024, 3, 5)}

BatchOutcomes ==
  {NetworkError, Response(TRUE, "object", Num(10), Num(400))}

\* an estimateDates call suspended on its fetch
NewCall ==
  [pc |-> "fetch", response |-> NoResponse, estimate |-> Null, source |-> "",
   expirationDate |-> InvalidDate, restockDate |-> InvalidDate,
   maxExpirationDate |-> InvalidDate, result |-> NoResult]

\* extractedItems.filter(item => item.confirmed)
Confirmed(items) == SelectSeq(items, LAMBDA item : item.confirmed)

\* faulty variant: every callback sees the last item of the list
CallItemLast(items, i) == items[Len(items)]

\* the item bound in the i-th callback of confirmedItems.map
CallItem(items, i) == items[i]

\* faulty variant: the date loop counts the shelf life of the rule object down
RulesCountedDown(table, est) ==
  [c \in DOMAIN table |->
     [table[c] EXCEPT
        !.default = IF @ = est THEN Pair(Num(0 - 1), est.restock) ELSE @,
        !.keywords = [k \in DOMAIN @ |->
                        [@[k] EXCEPT !.rule = IF @ = est
                                                THEN Pair(Num(0 - 1), est.restock)
                                                ELSE @]]]]

\* the rule table after a call has used the pair est: estimateDates only reads
\* estimate.shelf_life and estimate.restock and assigns to neither
RulesAfterCall(table, est) == table

\* the record the callback returns for its item
ItemRecord(item, day, estimates) ==
  [name |-> item.name, category |-> item.category, purchased_at |-> day,
   estimated_expiration_at |-> estimates.estimatedExpirationAt,
   estimated_restock_at |-> estimates.estimatedRestockAt,
   estimate_source |-> estimates.source]

BatchInit ==
  /\ tz \in Zones
  /\ CallIdle
  /\ ResolverIdle
  /\ rules = HEURISTIC_RULES
  /\ extractedItems \in ScannedLists
  /\ batchPc = "review"
  /\ confirmedItems = <<>>
  /\ today = Unparseable
  /\ calls = <<>>
  /\ onSuccessArg = <<>>
  /\ SearchIdle
  /\ ScanReviewing

\* toggleItemConfirmation(index)
\* (the list is compared as it stood at the click: toggles are taken before it)
ToggleItemConfirmation(index) ==
  /\ batchPc = "review"
  /\ index \in DOMAIN extractedItems
  /\ extractedItems' = [extractedItems EXCEPT ![index].confirmed = ~@]
  /\ UNCHANGED <<rules, batchPc, confirmedItems, today, calls, onSuccessArg,
                 callVars, resolverVars, uiVars>>

\* handleConfirmItems with nothing confirmed: the toast and the early return
ConfirmNothing ==
  /\ batchPc = "review"
  /\ Confirmed(extractedItems) = <<>>
  /\ batchPc' = "empty"
  /\ UNCHANGED <<rules, extractedItems, confirmedItems, today, calls, onSuccessArg,
                 callVars, resolverVars, uiVars>>

\* handleConfirmItems: today is taken once, and confirmedItems.map starts one
\* estimateDates call per confirmed item; each runs up to its fetch
ConfirmItems(day) ==
  /\ batchPc = "review"
  /\ Confirmed(extractedItems) # <<>>
  /\ confirmedItems' = Confirmed(extractedItems)
  /\ today' = day
  /\ calls' = [i \in 1..Len(Confirmed(extractedItems)) |-> NewCall]
  /\ batchPc' = "running"
  /\ UNCHANGED <<rules, extractedItems, onSuccessArg, callVars, resolverVars, uiVars>>

\* the fetch of call i settles: estimate = await getLLMEstimate, source = 'llm'
CallReply(i, outcome) ==
  /\ i \in DOMAIN calls
  /\ calls[i].pc = "fetch"
  /\ calls' = [calls EXCEPT ![i] = [@ EXCEPT !.response = outcome,
                                             !.estimate = getLLMEstimate(outcome),
                                             !.source = "llm",
                                             !.pc = "fallback"]]
  /\ UNCHANGED <<rules, extractedItems, batchPc, confirmedItems, today, onSuccessArg,
                 callVars, resolverVars, uiVars>>

\* if (!estimate) { estimate = getHeuristicEstimate(...); source = 'heuristic' }
\* the pair is the rule object of the shared table
CallFallback(i) ==
  /\ i \in DOMAIN calls
  /\ calls[i].pc = "fallback"
  /\ calls' = [calls EXCEPT ![i] =
       [@ EXCEPT !.estimate =
                   IF @.kind = "null"
                     THEN getHeuristicEstimateFrom(rules, CallItem(confirmedItems, i).name,
                                                   CallItem(confirmedItems, i).category)
                     ELSE @,
                 !.source = FallbackSource(calls[i].estimate),
                 !.pc = "compute"]]
  /\ UNCHANGED <<rules, extractedItems, batchPc, confirmedItems, today, onSuccessArg,
                 callVars, resolverVars, uiVars>>

CallThrowTypeError(i) ==
  /\ i \in DOMAIN calls
  /\ calls[i].pc = "compute"
  /\ calls[i].estimate.kind # "pair"
  /\ calls' = [calls EXCEPT ![i] = [@ EXCEPT !.result = Rejected("TypeError"),
                                             !.pc = "done"]]
  /\ UNCHANGED <<rules, extractedItems, batchPc, confirmedItems, today, onSuccessArg,
                 callVars, resolverVars, uiVars>>

CallComputeDates(i) ==
  /\ i \in DOMAIN calls
  /\ calls[i].pc = "compute"
  /\ calls[i].estimate.kind = "pair"
  /\ calls' = [calls EXCEPT ![i] =
       [@ EXCEPT !.expirationDate = AddDays(tz, NewDate(today), calls[i].estimate.shelf_life),
                 !.restockDate = AddDays(tz, NewDate(today), calls[i].estimate.restock),
                 !.maxExpirationDate = AddDays(tz, NewDate(today), Num(365)),
                 !.pc = "cap"]]
  /\ UNCHANGED <<rules, extractedItems, batchPc, confirmedItems, today, onSuccessArg,
                 callVars, resolverVars, uiVars>>

CallCap(i) ==
  /\ i \in DOMAIN calls
  /\ calls[i].pc = "cap"
  /\ calls' = [calls EXCEPT ![i] =
       [@ EXCEPT !.expirationDate = CapExpiration(calls[i].expirationDate,
                                                  calls[i].maxExpirationDate),
                 !.pc = "return"]]
  /\ UNCHANGED <<rules, extractedItems, batchPc, confirmedItems, today, onSuccessArg,
                 callVars, resolverVars, uiVars>>

CallReturn(i) ==
  /\ i \in DOMAIN calls
  /\ calls[i].pc = "return"
  /\ calls' = [calls EXCEPT ![i] =
       [@ EXCEPT !.result = ReturnValue(calls[i].expirationDate, calls[i].restockDate,
                                        calls[i].source),
                 !.pc = "done"]]
  /\ rules' = RulesAfterCall(rules, calls[i].estimate)
  /\ UNCHANGED <<extractedItems, batchPc, confirmedItems, today, onSuccessArg,
                 callVars, resolverVars, uiVars>>

\* Promise.all fulfils once every call has resolved, with the records in the
\* order of confirmedItems; then onSuccess(itemsWithEstimates)
BatchResolve ==
  /\ batchPc = "running"
  /\ \A i \in DOMAIN calls : calls[i].pc = "done" /\ calls[i].result.status = "resolved"
  /\ onSuccessArg' = [i \in DOMAIN calls |->
                        ItemRecord(CallItem(confirmedItems, i), today, calls[i].result)]
  /\ batchPc' = "succeeded"
  /\ UNCHANGED <<rules, extractedItems, confirmedItems, today, calls,
                 callVars, resolverVars, uiVars>>

\* Promise.all rejects with the first rejection: the catch block shows the error
\* toast and onSuccess is not called; the other calls run on
BatchReject ==
  /\ batchPc = "running"
  /\ \E i \in DOMAIN calls : calls[i].result.status = "rejected"
  /\ batchPc' = "failed"
  /\ UNCHANGED <<rules, extractedItems, confirmedItems, today, calls, onSuccessArg,
                 callVars, resolverVars, uiVars>>

BatchNext ==
  \/ \E index \in 1..MaxItems : ToggleItemConfirmation(index)
  \/ ConfirmNothing
  \/ \E day \in BatchDays : ConfirmItems(day)
  \/ \E i \in 1..MaxItems, outcome \in BatchOutcomes : CallReply(i, outcome)
  \/ \E i \in 1..MaxItems : CallFallback(i)
  \/ \E i \in 1..MaxItems : CallThrowTypeError(i)
  \/ \E i \in 1..MaxItems : CallComputeDates(i)
  \/ \E i \in 1..MaxItems : CallCap(i)
  \/ \E i \in 1..MaxItems : CallReturn(i)
  \/ BatchResolve
  \/ BatchReject

SpecBatch == BatchInit /\ [][BatchNext]_vars

(***************************************************************************)
(* The deal search: DealSearch, processResults and handleSearch            *)
(***************************************************************************)
\* the largest number of rows an RPC returns
MaxDeals == 3

Retailers == {"Kroger", "Aldi"}

\* the rows of a reply: ids are distinct, the retailer of each row is free
DealLists ==
  UNION {{[i \in 1..n |-> [id |-> i, retailer |-> r[i]]] : r \in [1..n -> Retailers]} :
           n \in 0..MaxDeals}

RpcReplies ==
  {RpcError("permission denied"), RpcError(""), RpcNull} \cup {RpcData(rows) : rows \in DealLists}

Milk4 == <<"m", "i", "l", "k">>

SearchTerms == {<<>>, <<" ">>, Milk4}

\* the zip field is a text input of at most five characters
Zipcodes ==
  {<<>>, <<"2", "2", "9", "0">>, <<"2", "2", "9", "0", "3">>, <<"2", "2", "9", "0", "a">>}

\* the radius field is a number input: its value is '' or a valid number
Radii ==
  {<<>>, <<"1", "0">>, <<"5">>, <<"0">>, <<"-", "5">>, <<"0", ".", "5">>}

WhiteSpace == {" "}

DigitChars == <<"0", "1", "2", "3", "4", "5", "6", "7", "8", "9">>

IsDigit(c) == \E d \in DOMAIN DigitChars : DigitChars[d] = c

DigitValue(c) == (CHOOSE d \in DOMAIN DigitChars : DigitChars[d] = c) - 1

RECURSIVE TrimStart(_)
TrimStart(s) ==
  IF s # <<>> /\ Head(s) \in WhiteSpace THEN TrimStart(Tail(s)) ELSE s

RECURSIVE TrimEnd(_)
TrimEnd(s) ==
  IF s # <<>> /\ s[Len(s)] \in WhiteSpace THEN TrimEnd(SubSeq(s, 1, Len(s) - 1)) ELSE s

\* String.prototype.trim
Trim(s) == TrimEnd(TrimStart(s))

\* the longest run of decimal digits at the head of s, as a number
RECURSIVE ParseDigits(_, _, _)
ParseDigits(s, acc, seen) ==
  IF s # <<>> /\ IsDigit(Head(s))
    THEN ParseDigits(Tail(s), acc * 10 + DigitValue(Head(s)), TRUE)
    ELSE IF seen THEN Number(acc) ELSE NaN

Negate(n) == IF n.nan THEN NaN ELSE Number(0 - n.value)

\* parseInt(s, 10): leading white space, a sign, then digits; the rest is ignored
ParseInt(s) ==
  LET t == TrimStart(s)
  IN IF t # <<>> /\ Head(t) = "-" THEN Negate(ParseDigits(Tail(t), 0, FALSE))
     ELSE IF t # <<>> /\ Head(t) = "+" THEN ParseDigits(Tail(t), 0, FALSE)
     ELSE ParseDigits(t, 0, FALSE)

\* faulty variant: any run of digits passes
TestZipLoose(zip) == \A i \in DOMAIN zip : IsDigit(zip[i])

\* /^\d{5}$/.test(zipcode)
TestZip(zip) == Len(zip) = 5 /\ \A i \in DOMAIN zip : IsDigit(zip[i])

\* the validation of handleSearch: the message of the first failed test
Validate(term, zip, rnum) ==
  IF Trim(term) = <<>> THEN ErrorMessage("Please enter an item name.")
  ELSE IF ~TestZip(zip) THEN ErrorMessage("Please enter a valid 5-digit zip code.")
  ELSE IF rnum.nan \/ rnum.value <= 0
    THEN ErrorMessage("Please enter a search radius greater than 0.")
  ELSE NoError

\* the values of the Map after the loop, in insertion order of the keys:
\* faulty variant that sets the entry of a retailer on every deal
RECURSIVE ValuesLast(_, _)
ValuesLast(rows, kept) ==
  IF rows = <<>> THEN kept
  ELSE ValuesLast(Tail(rows),
         IF \E k \in DOMAIN kept : kept[k].retailer = Head(rows).retailer
           THEN [k \in DOMAIN kept |->
                   IF kept[k].retailer = Head(rows).retailer THEN Head(rows) ELSE kept[k]]
           ELSE Append(kept, Head(rows)))

\* the loop of processResults: a deal is set only if its retailer has no entry
RECURSIVE ValuesFirst(_, _)
ValuesFirst(rows, kept) ==
  IF rows = <<>> THEN kept
  ELSE ValuesFirst(Tail(rows),
         IF \E k \in DOMAIN kept : kept[k].retailer = Head(rows).retailer
           THEN kept
           ELSE Append(kept, Head(rows)))

\* faulty variant: the last deal of each retailer
processResultsLast(rows) == ValuesLast(rows, <<>>)

\* what processResults passes to setResults
processResults(rows) == ValuesFirst(rows, <<>>)

\* err.message || 'Failed to fetch deals.'
CaughtMessage(message) ==
  IF message = "" THEN ErrorMessage("Failed to fetch deals.") ELSE ErrorMessage(message)

\* faulty variant: no finally block
AfterFinallySkipped(isLoading) == isLoading

\* finally { setLoading(false) }
AfterFinally(isLoading) == FALSE

notSearchVars == <<callVars, resolverVars, batchVars, scanVars>>

SearchInit ==
  /\ tz = UTCZone
  /\ CallIdle
  /\ ResolverIdle
  /\ BatchIdle
  /\ SearchIdle
  /\ ScanIdle

SetSearchTerm(value) ==
  /\ searchTerm' = value
  /\ searchTerm # value
  /\ UNCHANGED <<zipcode, radius, results, loading, error, searchPc, submitted,
                 radiusNum, rpcLog, exact, data, notSearchVars>>

SetZipcode(value) ==
  /\ zipcode' = value
  /\ zipcode # value
  /\ UNCHANGED <<searchTerm, radius, results, loading, error, searchPc, submitted,
                 radiusNum, rpcLog, exact, data, notSearchVars>>

SetRadius(value) ==
  /\ radius' = value
  /\ radius # value
  /\ UNCHANGED <<searchTerm, zipcode, results, loading, error, searchPc, submitted,
                 radiusNum, rpcLog, exact, data, notSearchVars>>

\* handleSearch up to its first await; the submit button is disabled while loading.
\* A failed validation ends the handler; otherwise find_deals_in_zip is issued.
HandleSearch ==
  /\ ~loading
  /\ searchPc = "idle"
  /\ submitted' = Submission(searchTerm, zipcode, radius)
  /\ radiusNum' = ParseInt(radius)
  /\ results' = <<>>
  /\ data' = <<>>
  /\ exact' = NoReply
  /\ error' = Validate(searchTerm, zipcode, ParseInt(radius))
  /\ IF Validate(searchTerm, zipcode, ParseInt(radius)).isNull
       THEN /\ loading' = TRUE
            /\ rpcLog' = <<"find_deals_in_zip">>
            /\ searchPc' = "exact"
       ELSE /\ loading' = FALSE
            /\ rpcLog' = <<>>
            /\ searchPc' = "idle"
  /\ UNCHANGED <<searchTerm, zipcode, radius, notSearchVars>>

\* find_deals_in_zip resolves with an error: throw e1, catch, finally
ExactError(reply) ==
  /\ searchPc = "exact"
  /\ reply.kind = "error"
  /\ exact' = reply
  /\ error' = CaughtMessage(reply.message)
  /\ loading' = AfterFinally(loading)
  /\ searchPc' = "idle"
  /\ UNCHANGED <<searchTerm, zipcode, radius, results, submitted, radiusNum, rpcLog,
                 data, notSearchVars>>

\* find_deals_in_zip resolves with rows: processResults, setLoading(false), return
ExactHit(reply) ==
  /\ searchPc = "exact"
  /\ reply.kind = "data" /\ ~reply.isNull /\ Len(reply.data) > 0
  /\ exact' = reply
  /\ data' = reply.data
  /\ results' = processResults(reply.data)
  /\ loading' = FALSE
  /\ searchPc' = "idle"
  /\ UNCHANGED <<searchTerm, zipcode, radius, error, submitted, radiusNum, rpcLog,
                 notSearchVars>>

\* find_deals_in_zip resolves with no rows: find_deals_near_zip is issued
ExactMiss(reply) ==
  /\ searchPc = "exact"
  /\ reply.kind = "data" /\ (reply.isNull \/ Len(reply.data) = 0)
  /\ exact' = reply
  /\ rpcLog' = Append(rpcLog, "find_deals_near_zip")
  /\ searchPc' = "near"
  /\ UNCHANGED <<searchTerm, zipcode, radius, results, loading, error, submitted,
                 radiusNum, data, notSearchVars>>

\* find_deals_near_zip resolves with an error: throw e2, catch, finally
NearError(reply) ==
  /\ searchPc = "near"
  /\ reply.kind = "error"
  /\ error' = CaughtMessage(reply.message)
  /\ loading' = AfterFinally(loading)
  /\ searchPc' = "idle"
  /\ UNCHANGED <<searchTerm, zipcode, radius, results, submitted, radiusNum, rpcLog,
                 exact, data, notSearchVars>>

\* find_deals_near_zip resolves with data: processResults or setResults([]), finally
NearData(reply) ==
  /\ searchPc = "near"
  /\ reply.kind = "data"
  /\ IF ~reply.isNull /\ Len(reply.data) > 0
       THEN /\ data' = reply.data
            /\ results' = processResults(reply.data)
       ELSE /\ data' = data
            /\ results' = <<>>
  /\ loading' = AfterFinally(loading)
  /\ searchPc' = "idle"
  /\ UNCHANGED <<searchTerm, zipcode, radius, error, submitted, radiusNum, rpcLog,
                 exact, notSearchVars>>

ExactReply == \E reply \in RpcReplies : ExactError(reply) \/ ExactHit(reply) \/ ExactMiss(reply)

NearReply == \E reply \in RpcReplies : NearError(reply) \/ NearData(reply)

SearchNext ==
  \/ \E value \in SearchTerms : SetSearchTerm(value)
  \/ \E value \in Zipcodes : SetZipcode(value)
  \/ \E value \in Radii : SetRadius(value)
  \/ HandleSearch
  \/ ExactReply
  \/ NearReply

SpecSearch == SearchInit /\ [][SearchNext]_vars

\* every RPC that was issued resolves
SpecSearchFair ==
  /\ SearchInit
  /\ [][SearchNext]_vars
  /\ WF_vars(ExactReply)
  /\ WF_vars(NearReply)

(***************************************************************************)
(* The receipt screen: handleImageSelect, processReceiptImage, resetUpload *)
(***************************************************************************)
\* the largest number of files picked on one visit of the screen
MaxSelections == 2

Files == {"receipt1", "receipt2"}

\* what supabase.functions.invoke('scan-receipt') resolves with
ScanError == [kind |-> "error", items |-> <<>>]

ScanNoItems == [kind |-> "noItems", items |-> <<>>]

ScanItems(items) == [kind |-> "items", items |-> items]

\* the FileReaders that can be started, numbered in order of selection
Readers == {[id |-> n, file |-> file] : n \in 1..MaxSelections, file \in Files}

ScanReplies ==
  {ScanError, ScanNoItems, ScanItems(<<>>)} \cup {ScanItems(items) : items \in ScannedLists}

notScanVars == <<callVars, resolverVars, searchVars, batchRunVars>>

ScanInit ==
  /\ tz = UTCZone
  /\ CallIdle
  /\ ResolverIdle
  /\ BatchIdle
  /\ SearchIdle
  /\ ScanIdle

\* the file input of the upload section, shown while there is no image:
\* handleImageSelect starts a FileReader
HandleImageSelect(file) ==
  /\ image = NoImage
  /\ selections < MaxSelections
  /\ selections' = selections + 1
  /\ readers' = readers \cup {[id |-> selections + 1, file |-> file]}
  /\ UNCHANGED <<image, isProcessing, isConfirming, scans, extractedItems, notScanVars>>

\* reader.onload: setImage(imageData); processReceiptImage(imageData) runs up to
\* its await: setIsProcessing(true) and the scan-receipt request
ReaderLoad(reader) ==
  /\ reader \in readers
  /\ readers' = readers \ {reader}
  /\ image' = reader.file
  /\ isProcessing' = TRUE
  /\ scans' = scans \cup {reader}
  /\ UNCHANGED <<isConfirming, selections, extractedItems, notScanVars>>

\* processReceiptImage after its await: the items are stored and the review is
\* opened, or the error is shown; finally setIsProcessing(false)
ScanReply(scan, reply) ==
  /\ scan \in scans
  /\ scans' = scans \ {scan}
  /\ IF reply.kind = "items"
       THEN /\ extractedItems' = reply.items
            /\ isConfirming' = TRUE
       ELSE UNCHANGED <<extractedItems, isConfirming>>
  /\ isProcessing' = FALSE
  /\ UNCHANGED <<image, readers, selections, notScanVars>>

\* the Remove button of the preview section, shown while there is an image
ResetUpload ==
  /\ image # NoImage
  /\ image' = NoImage
  /\ extractedItems' = <<>>
  /\ isConfirming' = FALSE
  /\ UNCHANGED <<isProcessing, readers, scans, selections, notScanVars>>

ScanNext ==
  \/ \E file \in Files : HandleImageSelect(file)
  \/ \E reader \in Readers : ReaderLoad(reader)
  \/ \E scan \in Readers, reply \in ScanReplies : ScanReply(scan, reply)
  \/ ResetUpload

SpecScan == ScanInit /\ [][ScanNext]_vars

(***************************************************************************)
(* Properties                                                              *)
(***************************************************************************)
\* the input is valid: a non-empty name and a parseable purchase date
ValidInput == input.name # <<>> /\ input.purchasedAt.kind = "iso"

Returned == pc = "done" /\ result.status = "resolved"

\* day number of the purchase date as written in the input
PurchaseDay ==
  DaysFromCivil(input.purchasedAt.y, input.purchasedAt.m, input.purchasedAt.d)

DayOf(civil) == DaysFromCivil(civil[1], civil[2], civil[3])

\* the date math and the capping applied to a horizon pair
DatesOf(zone, purchase, est, src) ==
  IF est.kind # "pair" THEN Rejected("TypeError")
  ELSE ReturnValue(CapExpiration(AddDays(zone, purchase, est.shelf_life),
                                 AddDays(zone, purchase, Num(365))),
                   AddDays(zone, purchase, est.restock), src)

OracleFailed ==
  response.kind = "networkError" \/ (response.kind = "response" /\ ~response.ok)

\* a 2xx response whose payload is malformed or lacks a numeric day count
MalformedPayload ==
  /\ response.kind = "response"
  /\ response.ok
  /\ \/ response.body # "object"
     \/ response.shelfLifeDays.kind # "num"
     \/ response.restockDays.kind # "num"

\* C1: a call with valid input resolves with a complete result, whatever the
\* oracle did; it never rejects.
C1_TotalNonThrowing ==
  (pc = "done" /\ ValidInput) => result.status = "resolved"

\* C2: whenever a result is returned from a numeric shelf life, the
\* expiration date is the purchase date plus min(shelfLifeDays, 365) days in
\* exact calendar arithmetic.
C2_ExactCappedExpiration ==
  (Returned /\ estimate.shelf_life.kind = "num") =>
    result.estimatedExpirationAt =
      CivilFromDays(PurchaseDay + Min(estimate.shelf_life.v, 365))

\* C3: the returned expiration date is never earlier than the purchase date.
C3_ExpirationNotBeforePurchase ==
  (Returned /\ ValidInput) => DayOf(result.estimatedExpirationAt) >= PurchaseDay

C5_FailureFallsBackToHeuristic ==
  (pc = "done" /\ ValidInput /\ OracleFailed) =>
    /\ result.status = "resolved"
    /\ result.source = "heuristic"
    /\ result = DatesOf(tz, NewDate(input.purchasedAt),
                        getHeuristicEstimate(input.name, input.category),
                        "heuristic")

\* C6: a 2xx response with a malformed payload, or without numeric day-count
\* fields, is treated as Unavailable: the call falls back to the heuristic
\* resolver.
C6_MalformedPayloadIsUnavailable ==
  (pc \in {"compute", "cap", "return", "done"} /\ MalformedPayload) =>
    /\ source = "heuristic"
    /\ estimate = getHeuristicEstimate(input.name, input.category)

MatchingKeywords(name, idx) ==
  {i \in 1..Len(HEURISTIC_RULES[idx].keywords) :
     Includes(ToLowerCase(name), HEURISTIC_RULES[idx].keywords[i].keyword)}

\* C8: for a category of the table the resolver returns the pair of the
\* earliest-listed keyword that is a substring of the lower-cased name, and
\* the default pair of the category when there is none; "Frozen Ground Beef"
\* under Meat resolves to "beef", the first listed of its three matches.
C8_FirstKeywordWins ==
  (hDone /\ hCategory \in OwnCategories) =>
    LET idx     == CHOOSE i \in 1..NumCategories : HEURISTIC_RULES[i].category = hCategory
        matches == MatchingKeywords(hName, idx)
    IN /\ matches = {} => hResult = HEURISTIC_RULES[idx].default
       /\ matches # {} =>
            \E i \in matches :
              /\ \A j \in matches : i <= j
              /\ hResult = HEURISTIC_RULES[idx].keywords[i].rule
       /\ (hName = FrozenGroundBeef /\ hCategory = "Meat") => hResult = Rule(3, 10)

\* several keywords match and their pairs differ
C8_Witness ==
  /\ hDone
  /\ hName = FrozenGroundBeef
  /\ hCategory = "Meat"
  /\ Cardinality(MatchingKeywords(hName, 3)) = 3
  /\ hResult = Rule(3, 10)

\* C9: for a category that is not one of the ten of the table, and any name,
\* the resolver returns exactly {shelf_life: 30, restock: 30}.
C9_UnknownCategoryDefault ==
  (hDone /\ hCategory \notin OwnCategories) => hResult = Rule(30, 30)

\* C10: a call with an empty name or an unparseable purchase date is
\* rejected and produces no result, whatever the oracle did.
C10_InvalidInputRejected ==
  (pc = "done" /\ ~ValidInput) => result.status = "rejected"

(***************************************************************************)
(* Progress of a call                                                      *)
(***************************************************************************)
\* The continuations of the call run once they are ready (the event loop runs
\* every queued job); nothing makes the fetch settle, the code sets no timeout
\* and passes no abort signal.
SpecFair ==
  /\ Init
  /\ [][Next]_vars
  /\ WF_vars(Fallback)
  /\ WF_vars(ThrowTypeError)
  /\ WF_vars(ComputeDates)
  /\ WF_vars(Cap)
  /\ WF_vars(Return)

\* C11: every call eventually completes, even when the oracle never responds.
C11_EventuallyCompletes == (pc = "fetch") ~> (pc = "done")

\* the oracle yielded no horizon pair: the request failed
OracleUnavailable ==
  \/ response.kind = "networkError"
  \/ response.kind = "response" /\ ~response.ok
  \/ response.kind = "response" /\ response.body \in {"notJson", "null"}

\* C12: a call makes exactly one oracle request, before any heuristic lookup;
\* the request is never repeated, and the heuristic resolver is called at most
\* once and only after that request has failed.
C12_OneRequestThenHeuristic ==
  /\ pc = "idle" => (requests = 0 /\ lookups = 0)
  /\ pc # "idle" => requests = 1
  /\ pc \in {"fetch", "fallback"} => lookups = 0
  /\ lookups <= 1
  /\ lookups = 1 => (response.kind # "pending" /\ OracleUnavailable)

\* a call that fell back after its one request failed
C12_Witness ==
  /\ pc = "done"
  /\ response.kind = "networkError"
  /\ requests = 1
  /\ lookups = 1
  /\ result.source = "heuristic"

\* what estimateDates yields for one item, one day and one oracle outcome when
\* nothing but the rule table as loaded is consulted
PureResult(zone, day, item, outcome) ==
  DatesOf(zone, NewDate(day),
          FallbackEstimate(getLLMEstimate(outcome), item.name, item.category),
          FallbackSource(getLLMEstimate(outcome)))

CallDone(i) == i \in DOMAIN calls /\ calls[i].pc = "done"

\* C13: two calls with identical input whose oracle fails end with identical
\* results (expiration date, restock date and source), whatever other calls ran
\* before or between them.
C13_FailingOracleDeterministic ==
  \A i, j \in DOMAIN calls :
    ( /\ CallDone(i) /\ CallDone(j)
      /\ confirmedItems[i] = confirmedItems[j]
      /\ calls[i].response = NetworkError /\ calls[j].response = NetworkError )
    => calls[i].result = calls[j].result

\* two heuristic calls for milk have returned around an oracle-served call
C13_Witness ==
  /\ Len(calls) = 3
  /\ \A i \in 1..3 : CallDone(i) /\ calls[i].result.status = "resolved"
  /\ confirmedItems[1] = confirmedItems[3] /\ confirmedItems[1].category = "Dairy"
  /\ confirmedItems[2] # confirmedItems[1]
  /\ calls[1].response = NetworkError /\ calls[3].response = NetworkError
  /\ calls[2].response # NetworkError
  /\ calls[1].result = calls[3].result
  /\ calls[1].result.source = "heuristic"

\* C14: under every interleaving of concurrent calls the rule table is never
\* modified, and the result of each call is a function of its own input and its
\* own oracle outcome only.
C14_NoSharedMutation ==
  /\ rules = HEURISTIC_RULES
  /\ \A i \in DOMAIN calls :
       CallDone(i) =>
         calls[i].result = PureResult(tz, today, confirmedItems[i], calls[i].response)

\* a heuristic call has returned while another call is between its steps
C14_Witness ==
  /\ Len(calls) >= 2
  /\ \E i, j \in DOMAIN calls :
       /\ CallDone(i) /\ calls[i].result.source = "heuristic"
       /\ calls[j].pc = "compute" /\ calls[j].source = "heuristic"
       /\ confirmedItems[i] = confirmedItems[j]

\* indices of the confirmed items of the reviewed list
ConfirmedIndices == {i \in DOMAIN extractedItems : extractedItems[i].confirmed}

\* the index in the reviewed list of the k-th confirmed item
NthConfirmed(k) ==
  CHOOSE i \in ConfirmedIndices : Cardinality({j \in ConfirmedIndices : j <= i}) = k

\* C15: the records handed to onSuccess are one per confirmed item, none for an
\* unconfirmed item, each with the estimate computed from that item's own name
\* and category, in whatever order the calls completed.
C15_OneRecordPerConfirmedItem ==
  /\ batchPc \in {"running", "succeeded", "failed"} =>
       Len(calls) = Cardinality(ConfirmedIndices)
  /\ batchPc = "succeeded" =>
       /\ Len(onSuccessArg) = Cardinality(ConfirmedIndices)
       /\ \A k \in DOMAIN onSuccessArg :
            /\ onSuccessArg[k].name = extractedItems[NthConfirmed(k)].name
            /\ onSuccessArg[k].category = extractedItems[NthConfirmed(k)].category
            /\ onSuccessArg[k] =
                 ItemRecord(extractedItems[NthConfirmed(k)], today,
                            PureResult(tz, today, extractedItems[NthConfirmed(k)],
                                       calls[k].response))
  /\ batchPc # "succeeded" => onSuccessArg = <<>>

\* onSuccess got two records of different items, one item was left unconfirmed
C15_Witness ==
  /\ batchPc = "succeeded"
  /\ Len(extractedItems) = 3 /\ ~extractedItems[2].confirmed
  /\ Len(onSuccessArg) = 2
  /\ onSuccessArg[1].category = "Meat" /\ onSuccessArg[2].category = "Dairy"
  /\ onSuccessArg[1].estimate_source = "heuristic"
  /\ onSuccessArg[2].estimate_source = "llm"
  /\ onSuccessArg[1].estimated_expiration_at # onSuccessArg[2].estimated_expiration_at

RetailersOf(rows) == {rows[i].retailer : i \in DOMAIN rows}

\* the position in rows of the first deal of a retailer
FirstIndex(rows, retailer) ==
  CHOOSE i \in DOMAIN rows :
    /\ rows[i].retailer = retailer
    /\ \A j \in 1..(i - 1) : rows[j].retailer # retailer

\* C16: the displayed results hold every retailer of the processed rows exactly
\* once, as the first deal of that retailer, in order of first occurrence.
C16_FirstDealPerRetailer ==
  /\ RetailersOf(results) = RetailersOf(data)
  /\ \A k, l \in DOMAIN results : results[k].retailer = results[l].retailer => k = l
  /\ \A k \in DOMAIN results : results[k] = data[FirstIndex(data, results[k].retailer)]
  /\ \A k, l \in DOMAIN results :
       k < l => FirstIndex(data, results[k].retailer) < FirstIndex(data, results[l].retailer)

\* rows Aldi, Kroger, Aldi are shown as the first Aldi deal, then the Kroger deal
C16_Witness ==
  /\ Len(data) = 3
  /\ data[1].retailer = "Aldi" /\ data[2].retailer = "Kroger" /\ data[3].retailer = "Aldi"
  /\ results = <<data[1], data[2]>>
  /\ searchPc = "idle"

\* the three conditions under which a search must not reach the database
BlankName(term) == \A i \in DOMAIN term : term[i] \in WhiteSpace

FiveDigits(zip) == zip \in [1..5 -> {DigitChars[d] : d \in DOMAIN DigitChars}]

\* a number literal without a minus sign whose mantissa has a digit other than 0
PositiveNumber(rad) ==
  /\ rad # <<>>
  /\ Head(rad) # "-"
  /\ \E i \in DOMAIN rad :
       /\ IsDigit(rad[i]) /\ rad[i] # "0"
       /\ \A j \in 1..i : rad[j] \notin {"e", "E"}

InvalidSubmission ==
  \/ BlankName(submitted.searchTerm)
  \/ ~FiveDigits(submitted.zipcode)
  \/ ~PositiveNumber(submitted.radius)

\* C17: find_deals_in_zip is tried first; find_deals_near_zip is issued only
\* after find_deals_in_zip of the same search returned no error and no rows; a
\* search whose fields fail validation issues no RPC.
C17_ExactFirstThenRadius ==
  /\ rpcLog \in {<<>>, <<"find_deals_in_zip">>,
                 <<"find_deals_in_zip", "find_deals_near_zip">>}
  /\ Len(rpcLog) = 2 => (exact.kind = "data" /\ Len(exact.data) = 0)
  /\ InvalidSubmission => rpcLog = <<>>

\* a search that found nothing in the zip code and got its deals from the radius
C17_Witness ==
  /\ searchPc = "idle"
  /\ Len(rpcLog) = 2
  /\ exact = RpcData(<<>>)
  /\ results # <<>>
  /\ ~InvalidSubmission

C19_NoReviewWithoutImage == isConfirming => image # NoImage
====
